---- MODULE Spec2Model ----
(***************************************************************************)
(* The STG runtime of runtime.c: the bump-allocated heap with its copying  *)
(* collector, the argument stack A, the secondary stack B, the pointer     *)
(* registers, string closures and the update-frame / partial-application   *)
(* protocol.                                                               *)
(*                                                                         *)
(* Addresses.  A heap address is a pair (space, offset): every block that  *)
(* malloc returns for the heap is a new space, and the offset is the byte  *)
(* distance from g_Heap.data.  Static objects (string literals, the null   *)
(* sentinel) live outside every heap space.  A stack slot is named by its  *)
(* index from g_SA.data / g_SB.data.                                       *)
(***************************************************************************)
EXTENDS Integers, Sequences, FiniteSets, TLC

VARIABLES
  g_Heap,                 \* [data, cursor, capacity]: data is the space, cursor an offset
  heapMem,                \* the closures of the current space, by offset
  heapAlloc,              \* the byte count passed to malloc for the current space
  g_SA,                   \* [top, base]: slot indices from g_SA.data
  memA,                   \* the written slots of stack A
  g_SB,                   \* [top, base]: slot indices from g_SB.data
  memB,                   \* the written slots of stack B
  g_StringRegister,
  g_NodeRegister,
  g_ConstrUpdateRegister,
  reserved,               \* bytes the last heap_reserve left for the caller to write
  fault,                  \* the process has made an invalid memory access
  lastOp,                 \* the operation that produced this state
  ret,                    \* what the last operation returned
  pap,                    \* where check_application_update built its closure
  gc,                     \* what the collection run by the last operation did
  entry,                  \* the stacks as the last check_application_update found them
  ufs                     \* the update frames on stack B, bottom first

vars == <<g_Heap, heapMem, heapAlloc, g_SA, memA, g_SB, memB, g_StringRegister,
          g_NodeRegister, g_ConstrUpdateRegister, reserved, fault, lastOp, ret,
          pap, gc, entry, ufs>>

-----------------------------------------------------------------------------
(* Program constants *)

\* sizeof(InfoTable *), sizeof(uint8_t *) and sizeof(StackBItem) on an LP64 build
PtrSize == 8
\* sizeof(uint16_t)
U16Size == 2
\* the range of uint16_t
U16Range == 65536
BASE_HEAP_SIZE == 128
STACK_SIZE == 1024
HEAP_GROWTH == 3

(* Bounds of the model *)

\* the deepest stack A the mutator builds
MaxA == 1
\* the update frames the mutator nests on stack B
MaxFrames == 2
\* the items the mutator pushes on stack B above the topmost update frame
MaxPlain == 1
\* the number of collections in one run
MaxGC == 1
\* the number of closures in the heap when the mutator may still allocate
\* without a collection
MaxObjs == 2
\* the longest string the mutator asks string_concat to build
MaxStrLen == 8

-----------------------------------------------------------------------------
(* Values: every pointer, stack item and label is a record of one shape.   *)

Val(k, sp, off) == [k |-> k, sp |-> sp, off |-> off]

\* the null address
NULLP == Val("NULL", 0, 0)
\* (uint8_t *)&table_pointer_for_null: a static word holding &table_for_null
NullSentinel == Val("null", 0, 0)
\* the address of the i-th string literal closure of the compiled program
Lit(i) == Val("lit", 0, i)
\* an address in heap space sp
Hp(sp, off) == Val("heap", sp, off)
\* a code label
Code(i) == Val("code", 0, i)
\* StackBItem.as_int
IntItem(v) == Val("int", 0, v)
\* StackBItem.as_sb_base
SBBaseItem(i) == Val("sb_base", 0, i)
\* StackBItem.as_sa_base
SABaseItem(i) == Val("sa_base", 0, i)
\* a slot nothing has written
Uninit == Val("uninit", 0, 0)

\* &update_constructor
UpdateConstructorLabel == Code(0)
\* a return continuation of the compiled program
ReturnLabel == Code(1)
\* the entry label of a function of the compiled program
FunctionLabel == Code(2)

EmptyMem == [x \in {} |-> Uninit]

\* reading and writing one slot of a malloc'ed array
Rd(m, i) == IF i \in DOMAIN m THEN m[i] ELSE Uninit
Wr(m, i, v) == [j \in (DOMAIN m) \cup {i} |-> IF j = i THEN v ELSE m[j]]

-----------------------------------------------------------------------------
(* Closures.  A closure is modelled by its info table (t), the bytes it    *)
(* occupies (size) and the payload fields of its shape.                    *)

Obj(t, size, bytes, fwd, a, b, aslice, bslice) ==
  [t |-> t, size |-> size, bytes |-> bytes, fwd |-> fwd,
   a |-> a, b |-> b, aslice |-> aslice, bslice |-> bslice]

\* [table_for_string][bytes, NUL-terminated][padding]
StringObj(bytes, size) == Obj("string", size, bytes, NULLP, 0, 0, <<>>, <<>>)
\* [table_for_already_evac][new address]
ForwardObj(to, size) == Obj("already_evac", size, <<>>, to, 0, 0, <<>>, <<>>)
\* [table_for_partial_application][a_items][b_items][A slice][B slice]
PapObj(a, b, aslice, bslice, size) == Obj("pap", size, <<>>, NULLP, a, b, aslice, bslice)
\* a thunk of the compiled program: [info table][one word]
ThunkObj == Obj("thunk", PtrSize + PtrSize, <<>>, NULLP, 0, 0, <<>>, <<>>)
\* a thunk overwritten with an indirection
IndirectionObj(to) == Obj("indirection", PtrSize + PtrSize, <<>>, to, 0, 0, <<>>, <<>>)
\* bytes written by the compiled program that no root refers to
BlobObj(size) == Obj("blob", size, <<>>, NULLP, 0, 0, <<>>, <<>>)

\* the payload of the string literals of the compiled program:
\* "", "abcd" and "wxyz"
LitBytes(i) ==
  CASE i = 1 -> <<0>>
    [] i = 2 -> <<97, 98, 99, 100, 0>>
    [] OTHER -> <<119, 120, 121, 122, 0>>
Literals == {Lit(1), Lit(2), Lit(3)}

\* strlen
Strlen(bytes) ==
  (CHOOSE i \in 1..Len(bytes) : bytes[i] = 0 /\ \A j \in 1..(i - 1) : bytes[j] # 0) - 1

\* the bytes at p + sizeof(InfoTable *), for p a string closure of space sp
Payload(mem, sp, p) ==
  IF p.k = "lit" THEN LitBytes(p.off)
  ELSE IF p.k = "heap" /\ p.sp = sp /\ p.off \in DOMAIN mem THEN mem[p.off].bytes
  ELSE <<0>>

\* read_info_table(p): the table the first word of the closure at p names
InfoTableAt(mem, sp, p) ==
  CASE p.k = "lit" -> "string_literal"
    [] p.k = "null" -> "null"
    [] p.k = "heap" /\ p.sp = sp /\ p.off \in DOMAIN mem -> mem[p.off].t
    [] OTHER -> "invalid"

\* InfoTable.evac of each table
EvacOf(table) ==
  CASE table = "null" -> "static_evac"
    [] table = "string_literal" -> "static_evac"
    [] table = "pap" -> "static_evac"
    [] table = "already_evac" -> "already_evac"
    [] table = "string" -> "string_evac"
    [] table \in {"thunk", "indirection"} -> "thunk_evac"
    [] OTHER -> "invalid"

IsString(mem, sp, p) == InfoTableAt(mem, sp, p) \in {"string", "string_literal"}

-----------------------------------------------------------------------------
(* The collector.  A collection in progress is a record g: the space being *)
(* left (old, whose closures turn into forwarding closures), the space     *)
(* being filled (new), the cursor in it (cur), and whether a root has      *)
(* made the collector read memory that is not a closure (fault).           *)

\* static_evac
static_evac(base) == base

\* already_evac: the pointer stored after the info table
already_evac(old, base) == old[base.off].fwd

\* string_evac with the forwarding closure left out
string_evac_no_forward(g, base, newsp) ==
  LET new_base == g.cur
      src == g.old[base.off].bytes
      bytes == Strlen(src) + 1
      pad == IF bytes < PtrSize THEN PtrSize - bytes ELSE 0
  IN [g |-> [g EXCEPT !.new = Wr(@, new_base,
                                 StringObj(SubSeq(src, 1, bytes), PtrSize + bytes + pad)),
                      !.cur = @ + PtrSize + bytes + pad],
      p |-> Hp(newsp, new_base)]

\* string_evac with the padding of short strings left out
string_evac_no_pad(g, base, newsp) ==
  LET new_base == g.cur
      src == g.old[base.off].bytes
      bytes == Strlen(src) + 1
  IN [g |-> [g EXCEPT !.new = Wr(@, new_base,
                                 StringObj(SubSeq(src, 1, bytes), PtrSize + bytes)),
                      !.cur = @ + PtrSize + bytes,
                      !.old = [@ EXCEPT ![base.off] =
                                 ForwardObj(Hp(newsp, new_base), @.size)]],
      p |-> Hp(newsp, new_base)]

\* string_evac: copy header and payload up to the NUL to the cursor, pad the
\* copy to a header and a pointer, turn the original into a forwarding closure
string_evac(g, base, newsp) ==
  LET new_base == g.cur
      src == g.old[base.off].bytes
      bytes == Strlen(src) + 1
      pad == IF bytes < PtrSize THEN PtrSize - bytes ELSE 0
  IN [g |-> [g EXCEPT !.new = Wr(@, new_base,
                                 StringObj(SubSeq(src, 1, bytes), PtrSize + bytes + pad)),
                      !.cur = @ + PtrSize + bytes + pad,
                      !.old = [@ EXCEPT ![base.off] =
                                 ForwardObj(Hp(newsp, new_base), @.size)]],
      p |-> Hp(newsp, new_base)]

\* the evac of a thunk of the compiled program: copy it, forward the original
thunk_evac(g, base, newsp) ==
  LET new_base == g.cur
      src == g.old[base.off]
  IN [g |-> [g EXCEPT !.new = Wr(@, new_base, src),
                      !.cur = @ + src.size,
                      !.old = [@ EXCEPT ![base.off] =
                                 ForwardObj(Hp(newsp, new_base), @.size)]],
      p |-> Hp(newsp, new_base)]

\* collect_root: *root = read_info_table(*root)->evac(*root).
\* A root that is the null address, was never written, or refers into a freed
\* space makes read_info_table read memory that holds no closure.  ub names
\* what that read does: "crash" (the process faults) or "stale" (the freed
\* block still holds the static_evac table the closure had, so the root is
\* returned as it is; only closures with static_evac are left behind in a
\* freed space by a collection).
collect_root(g, p, oldsp, newsp, ub) ==
  IF g.fault THEN [g |-> g, p |-> p]
  ELSE IF p.k \in {"NULL", "uninit"}
    THEN [g |-> [g EXCEPT !.fault = TRUE], p |-> p]
  ELSE IF p.k = "heap" /\ (p.sp # oldsp \/ p.off \notin DOMAIN g.old)
    THEN IF ub = "crash" THEN [g |-> [g EXCEPT !.fault = TRUE], p |-> p]
                         ELSE [g |-> g, p |-> static_evac(p)]
  ELSE LET evac == EvacOf(InfoTableAt(g.old, oldsp, p)) IN
    CASE evac = "static_evac" -> [g |-> g, p |-> static_evac(p)]
      [] evac = "already_evac" -> [g |-> g, p |-> already_evac(g.old, p)]
      [] evac = "string_evac" -> string_evac(g, p, newsp)
      [] evac = "thunk_evac" -> thunk_evac(g, p, newsp)
      [] OTHER -> [g |-> [g EXCEPT !.fault = TRUE], p |-> p]

\* for (uint8_t **p = g_SA.data; p < g_SA.top; ++p) collect_root(p);
RECURSIVE CollectStackA(_, _, _, _, _, _, _)
CollectStackA(g, m, i, top, oldsp, newsp, ub) ==
  IF i >= top THEN [g |-> g, m |-> m]
  ELSE LET r == collect_root(g, Rd(m, i), oldsp, newsp, ub)
       IN CollectStackA(r.g, Wr(m, i, r.p), i + 1, top, oldsp, newsp, ub)

\* for (base = g_SB.base; base != g_SB.data; base = base[0].as_sb_base)
\*   collect_root(&base[2].as_closure);
RECURSIVE CollectFrames(_, _, _, _, _, _)
CollectFrames(g, m, base, oldsp, newsp, ub) ==
  IF base = 0 \/ g.fault THEN [g |-> g, m |-> m]
  ELSE LET r == collect_root(g, Rd(m, base + 2), oldsp, newsp, ub)
       IN CollectFrames(r.g, Wr(m, base + 2, r.p), Rd(m, base).off, oldsp, newsp, ub)

\* The machine state the runtime functions work on.
Machine == [H |-> g_Heap, mem |-> heapMem, alloc |-> heapAlloc,
            sr |-> g_StringRegister, nr |-> g_NodeRegister,
            sa |-> memA, satop |-> g_SA.top, sb |-> memB, sbbase |-> g_SB.base]

\* What a collection did: the space it left (sp), the bytes in use there
\* (used), the new address of every closure it moved (fwd, by old offset) and
\* the bytes it copied (live).
NoForward == [x \in {} |-> NULLP]
NoGC == [ran |-> FALSE, sp |-> 0, used |-> 0, live |-> 0, fwd |-> NoForward]
Forwarding(old) ==
  [o \in {x \in DOMAIN old : old[x].t = "already_evac"} |-> already_evac(old, Hp(0, o))]

\* the capacity of the new space without the test against required_capacity
NewCapacity_grown_only(old, extra_required) == HEAP_GROWTH * old.capacity

\* collect_garbage: the capacity of the new space
NewCapacity(old, extra_required) ==
  LET new_capacity == HEAP_GROWTH * old.capacity
      required_capacity == old.cursor + extra_required
  IN IF new_capacity < required_capacity THEN required_capacity ELSE new_capacity

\* the string register collected without the test for the null address: a
\* null register comes back as the null-sentinel closure
CollectStringRegister_sentinel(M, ub) ==
  LET g0 == [old |-> M.mem, new |-> EmptyMem, cur |-> 0, fault |-> FALSE]
  IN collect_root(g0, IF M.sr = NULLP THEN NullSentinel ELSE M.sr,
                  M.H.data, M.H.data + 1, ub)

\* collect_garbage: g_Heap.cursor = g_Heap.data in the new space, then the
\* string register, if it is not the null address
CollectStringRegister(M, ub) ==
  LET g0 == [old |-> M.mem, new |-> EmptyMem, cur |-> 0, fault |-> FALSE]
  IN IF M.sr # NULLP THEN collect_root(g0, M.sr, M.H.data, M.H.data + 1, ub)
                     ELSE [g |-> g0, p |-> M.sr]

\* collect_garbage: then the node register, if it is not the null address
CollectNodeRegister(M, ub, r1) ==
  [sr |-> r1.p,
   r |-> IF M.nr # NULLP THEN collect_root(r1.g, M.nr, M.H.data, M.H.data + 1, ub)
                         ELSE [g |-> r1.g, p |-> M.nr]]

\* collect_garbage: then every slot of stack A below the top
CollectArguments(M, ub, c2) ==
  [sr |-> c2.sr, nr |-> c2.r.p,
   r |-> CollectStackA(c2.r.g, M.sa, 0, M.satop, M.H.data, M.H.data + 1, ub)]

\* collect_garbage: then the closure of every update frame from g_SB.base down
CollectUpdateFrames(M, ub, c3) ==
  [sr |-> c3.sr, nr |-> c3.nr, sa |-> c3.r.m,
   r |-> CollectFrames(c3.r.g, M.sb, M.sbbase, M.H.data, M.H.data + 1, ub)]

\* collect_garbage: the capacity is lowered to HEAP_GROWTH times the bytes
\* the collection copied, when that is less
RestrictCapacity(new_capacity, necessary_size) ==
  LET comfortable_size == HEAP_GROWTH * necessary_size
  IN IF comfortable_size < new_capacity THEN comfortable_size ELSE new_capacity

\* collect_garbage: the old space is freed; the heap is the new space
FinishCollection(M, new_capacity, c4) ==
  [M |-> [H |-> [data |-> M.H.data + 1, cursor |-> c4.r.g.cur,
                 capacity |-> RestrictCapacity(new_capacity, c4.r.g.cur)],
          mem |-> c4.r.g.new, alloc |-> new_capacity,
          sr |-> c4.sr, nr |-> c4.nr, sa |-> c4.sa, satop |-> M.satop,
          sb |-> c4.r.m, sbbase |-> M.sbbase],
   fault |-> c4.r.g.fault,
   gc |-> [ran |-> TRUE, sp |-> M.H.data, used |-> M.H.cursor, live |-> c4.r.g.cur,
           fwd |-> Forwarding(c4.r.g.old)]]

\* collect_garbage(extra_required)
collect_garbage(extra_required, M, ub) ==
  FinishCollection(M, NewCapacity(M.H, extra_required),
    CollectUpdateFrames(M, ub,
      CollectArguments(M, ub,
        CollectNodeRegister(M, ub,
          CollectStringRegister(M, ub)))))

\* heap_reserve(amount)
heap_reserve(amount, M, ub) ==
  IF M.H.cursor + amount > M.H.capacity
    THEN collect_garbage(amount, M, ub)
    ELSE [M |-> M, fault |-> FALSE, gc |-> NoGC]

\* heap_write: the closure obj is written at the cursor, which moves past it
heap_write(M, obj) ==
  [M EXCEPT !.mem = Wr(@, M.H.cursor, obj), !.H.cursor = @ + obj.size]

-----------------------------------------------------------------------------
(* The state after setup() *)

\* What the last call of string_concat or check_application_update was given:
\* the two strings and their payloads, or the stacks and the closure of the
\* topmost update frame.
NoEntry == [sbtop |-> 0, sbbase |-> 0, satop |-> 0, sabase |-> 0, closure |-> NULLP,
            s1 |-> NULLP, s2 |-> NULLP, bytes1 |-> <<>>, bytes2 |-> <<>>]

Init ==
  /\ g_Heap = [data |-> 0, cursor |-> 0, capacity |-> BASE_HEAP_SIZE]
  /\ heapMem = EmptyMem
  /\ heapAlloc = BASE_HEAP_SIZE * PtrSize
  /\ g_SA = [top |-> 0, base |-> 0]
  /\ memA = EmptyMem
  /\ g_SB = [top |-> 0, base |-> 0]
  /\ memB = EmptyMem
  /\ g_StringRegister = NULLP
  /\ g_NodeRegister = NullSentinel
  /\ g_ConstrUpdateRegister = NullSentinel
  /\ reserved = 0
  /\ fault = FALSE
  /\ lastOp = "setup"
  /\ ret = NULLP
  /\ pap = NULLP
  /\ gc = NoGC
  /\ entry = NoEntry
  /\ ufs = <<>>

-----------------------------------------------------------------------------
(* Bookkeeping shared by the actions *)

\* the new address of the closure at p after the collection c, p itself if
\* the collection did not move it
Reloc(c, p) ==
  IF c.ran /\ p.k = "heap" /\ p.sp = c.sp /\ p.off \in DOMAIN c.fwd
    THEN c.fwd[p.off] ELSE p

RelocFrames(c, fs) == [i \in DOMAIN fs |-> [fs[i] EXCEPT !.c = Reloc(c, @)]]

\* A slot at or above the top of a stack holds no live value: what an
\* operation leaves there is indeterminate to every later operation.
Live(m, top) == [i \in {j \in DOMAIN m : j < top} |-> m[i]]

\* the heap, the registers and the stack slots become those of M
SetMachine(M, satop, sbtop) ==
  /\ g_Heap' = M.H
  /\ heapMem' = M.mem
  /\ heapAlloc' = M.alloc
  /\ g_StringRegister' = M.sr
  /\ g_NodeRegister' = M.nr
  /\ memA' = Live(M.sa, satop)
  /\ memB' = Live(M.sb, sbtop)

\* the process stops at an invalid memory access
Faulted ==
  /\ fault' = TRUE
  /\ lastOp' = "fault"
  /\ UNCHANGED <<g_Heap, heapMem, heapAlloc, g_SA, memA, g_SB, memB,
                 g_StringRegister, g_NodeRegister, g_ConstrUpdateRegister,
                 reserved, ret, pap, gc, entry, ufs>>

\* a collection may still run
MayCollect(amount) == g_Heap.cursor + amount > g_Heap.capacity => g_Heap.data < MaxGC

\* the mutator may still allocate amount bytes
MayAllocate(amount) ==
  \/ Cardinality(DOMAIN heapMem) < MaxObjs
  \/ g_Heap.cursor + amount > g_Heap.capacity

UB == {"crash", "stale"}

-----------------------------------------------------------------------------
(* The heap interface used by compiled code: reserve, then write *)

\* compiled code reserves all of a fresh heap but the room of two small
\* closures, or more than HEAP_GROWTH times a fresh heap
ReserveSizes == {BASE_HEAP_SIZE - 2 * (PtrSize + PtrSize),
                 HEAP_GROWTH * BASE_HEAP_SIZE + PtrSize + PtrSize}

HeapReserve(amount, ub) ==
  /\ ~fault
  /\ MayCollect(amount)
  /\ LET r == heap_reserve(amount, Machine, ub) IN
       IF r.fault THEN Faulted
       ELSE /\ SetMachine(r.M, g_SA.top, g_SB.top)
            /\ reserved' = amount
            /\ lastOp' = "heap_reserve"
            /\ gc' = r.gc
            /\ ufs' = RelocFrames(r.gc, ufs)
            /\ ret' = NULLP
            /\ pap' = NULLP
            /\ entry' = NoEntry
            /\ UNCHANGED <<g_SA, g_SB, g_ConstrUpdateRegister, fault>>

\* compiled code allocates a thunk and enters it:
\* heap_reserve(size); heap_write_info_table(..); heap_write_ptr(..);
\* the node register is the address of the closure entered
AllocThunk(ub) ==
  /\ ~fault
  /\ MayAllocate(ThunkObj.size)
  /\ MayCollect(ThunkObj.size)
  /\ LET r == heap_reserve(ThunkObj.size, Machine, ub)
         M == [heap_write(r.M, ThunkObj) EXCEPT !.nr = Hp(r.M.H.data, r.M.H.cursor)]
     IN IF r.fault THEN Faulted
        ELSE /\ SetMachine(M, g_SA.top, g_SB.top)
             /\ reserved' = 0
             /\ lastOp' = "alloc"
             /\ gc' = r.gc
             /\ ufs' = RelocFrames(r.gc, ufs)
             /\ ret' = NULLP
             /\ pap' = NULLP
             /\ entry' = NoEntry
             /\ UNCHANGED <<g_SA, g_SB, g_ConstrUpdateRegister, fault>>

\* compiled code allocates closures no root refers to
AllocBlob(amount, ub) ==
  /\ ~fault
  /\ MayAllocate(amount)
  /\ MayCollect(amount)
  /\ LET r == heap_reserve(amount, Machine, ub)
         M == heap_write(r.M, BlobObj(amount))
     IN IF r.fault THEN Faulted
        ELSE /\ SetMachine(M, g_SA.top, g_SB.top)
             /\ reserved' = 0
             /\ lastOp' = "alloc"
             /\ gc' = r.gc
             /\ ufs' = RelocFrames(r.gc, ufs)
             /\ ret' = NULLP
             /\ pap' = NULLP
             /\ entry' = NoEntry
             /\ UNCHANGED <<g_SA, g_SB, g_ConstrUpdateRegister, fault>>

\* compiled code fills the reserved bytes with closures no root refers to
WriteBlob ==
  /\ ~fault
  /\ reserved > 0
  /\ LET M == heap_write(Machine, BlobObj(reserved)) IN
       /\ g_Heap' = M.H
       /\ heapMem' = M.mem
  /\ reserved' = 0
  /\ lastOp' = "mutator"
  /\ gc' = NoGC
  /\ ret' = NULLP
  /\ pap' = NULLP
  /\ entry' = NoEntry
  /\ UNCHANGED <<heapAlloc, g_SA, memA, g_SB, memB, g_StringRegister,
                 g_NodeRegister, g_ConstrUpdateRegister, fault, ufs>>

-----------------------------------------------------------------------------
(* Pushes and pops of compiled code *)

NoResult ==
  /\ reserved' = 0
  /\ gc' = NoGC
  /\ ret' = NULLP
  /\ pap' = NULLP
  /\ entry' = NoEntry

\* what compiled code has at hand to push on stack A
PushableA ==
  {g_NodeRegister}
    \cup (IF g_StringRegister # NULLP THEN {g_StringRegister} ELSE {})
    \cup (IF pap # NULLP THEN {pap} ELSE {})

PushA(v) ==
  /\ ~fault
  /\ g_SA.top < MaxA
  /\ memA' = Wr(memA, g_SA.top, v)
  /\ g_SA' = [g_SA EXCEPT !.top = @ + 1]
  /\ lastOp' = "mutator"
  /\ NoResult
  /\ UNCHANGED <<g_Heap, heapMem, heapAlloc, g_SB, memB, g_StringRegister,
                 g_NodeRegister, g_ConstrUpdateRegister, fault, ufs>>

PopA ==
  /\ ~fault
  /\ g_SA.top > g_SA.base
  /\ g_SA' = [g_SA EXCEPT !.top = @ - 1]
  /\ memA' = Live(memA, g_SA.top - 1)
  /\ lastOp' = "mutator"
  /\ NoResult
  /\ UNCHANGED <<g_Heap, heapMem, heapAlloc, g_SB, memB, g_StringRegister,
                 g_NodeRegister, g_ConstrUpdateRegister, fault, ufs>>

\* the first slot above the topmost update frame
FrameFloor == IF ufs = <<>> THEN 0 ELSE ufs[Len(ufs)].base + 4

\* compiled code pushes a return continuation, and above it an integer it saves
PushableB ==
  IF g_SB.top > FrameFloor /\ Rd(memB, g_SB.top - 1) = ReturnLabel
    THEN {IntItem(7)} ELSE {ReturnLabel}

PushB(v) ==
  /\ ~fault
  /\ g_SB.top >= 0
  /\ g_SB.top - FrameFloor < MaxPlain
  /\ memB' = Wr(memB, g_SB.top, v)
  /\ g_SB' = [g_SB EXCEPT !.top = @ + 1]
  /\ lastOp' = "mutator"
  /\ NoResult
  /\ UNCHANGED <<g_Heap, heapMem, heapAlloc, g_SA, memA, g_StringRegister,
                 g_NodeRegister, g_ConstrUpdateRegister, fault, ufs>>

PopB ==
  /\ ~fault
  /\ g_SB.top > FrameFloor
  /\ g_SB' = [g_SB EXCEPT !.top = @ - 1]
  /\ memB' = Live(memB, g_SB.top - 1)
  /\ lastOp' = "mutator"
  /\ NoResult
  /\ UNCHANGED <<g_Heap, heapMem, heapAlloc, g_SA, memA, g_StringRegister,
                 g_NodeRegister, g_ConstrUpdateRegister, fault, ufs>>

\* compiled code keeps the result of string_concat in the string register
StoreString ==
  /\ ~fault
  /\ lastOp = "string_concat"
  /\ g_StringRegister' = ret
  /\ lastOp' = "mutator"
  /\ NoResult
  /\ UNCHANGED <<g_Heap, heapMem, heapAlloc, g_SA, memA, g_SB, memB,
                 g_NodeRegister, g_ConstrUpdateRegister, fault, ufs>>

-----------------------------------------------------------------------------
(* Update frames *)

\* The stacks as save_SB, save_SA and update_constructor see them.
Stacks == [sa |-> g_SA, sb |-> g_SB, mb |-> memB]

\* save_SB
save_SB(S) ==
  [S EXCEPT !.mb = Wr(@, S.sb.top, SBBaseItem(S.sb.base)),
            !.sb = [top |-> S.sb.top + 1, base |-> S.sb.top]]

\* save_SA
save_SA(S) ==
  [S EXCEPT !.mb = Wr(@, S.sb.top, SABaseItem(S.sa.base)),
            !.sa = [top |-> S.sa.top, base |-> S.sa.top],
            !.sb = [top |-> S.sb.top + 1, base |-> S.sb.base]]

\* a push on stack B
push_SB(S, v) ==
  [S EXCEPT !.mb = Wr(@, S.sb.top, v), !.sb = [top |-> S.sb.top + 1, base |-> S.sb.base]]

\* The prologue of a thunk's entry code: save_SB(); save_SA(); push the
\* thunk's own closure (the node register); push &update_constructor.
\* The code that enters a thunk has pushed its return continuation, which is
\* the lowest slot of the update frame; the first thunk of the program is
\* entered on an empty stack B.
ThunkPrologue ==
  /\ ~fault
  /\ Len(ufs) < MaxFrames
  /\ g_SB.top = 0 \/ Rd(memB, g_SB.top - 1) = ReturnLabel
  /\ LET S == push_SB(push_SB(save_SA(save_SB(Stacks)), g_NodeRegister),
                      UpdateConstructorLabel)
     IN /\ g_SA' = S.sa
        /\ g_SB' = S.sb
        /\ memB' = S.mb
  /\ ufs' = Append(ufs, [base |-> g_SB.top, c |-> g_NodeRegister,
                         k |-> Rd(memB, g_SB.top - 1),
                         sa |-> g_SA.base, sb |-> g_SB.base])
  /\ lastOp' = "thunk_prologue"
  /\ NoResult
  /\ UNCHANGED <<g_Heap, heapMem, heapAlloc, memA, g_StringRegister,
                 g_NodeRegister, g_ConstrUpdateRegister, fault>>

\* update_constructor with the two saved bases read from each other's slot
update_constructor_swapped(S) ==
  LET top == S.sb.top - 4
  IN [S |-> [S EXCEPT !.sb = [top |-> top, base |-> Rd(S.mb, top + 2).off],
                      !.sa = [top |-> S.sa.top, base |-> Rd(S.mb, top + 1).off]],
      cur |-> Rd(S.mb, top + 3),
      ret |-> Rd(S.mb, top)]

\* update_constructor: the new stacks, the constructor-update register and
\* the label returned.  Slot top[0] lies below g_SB.data when top < 0.
update_constructor(S) ==
  LET top == S.sb.top - 4
  IN [S |-> [S EXCEPT !.sb = [top |-> top, base |-> Rd(S.mb, top + 1).off],
                      !.sa = [top |-> S.sa.top, base |-> Rd(S.mb, top + 2).off]],
      cur |-> Rd(S.mb, top + 3),
      ret |-> Rd(S.mb, top)]

\* A constructor return pops the topmost label of stack B and jumps to it;
\* here the label is &update_constructor, the top of the topmost update frame.
\* For a frame established on the empty stack B, g_SB.top[0] is the word below
\* g_SB.data: ub names what that read does, "crash" (the process faults) or
\* "stale" (it yields whatever the word holds, and the call returns).
ReturnToUpdateFrame(ub) ==
  /\ ~fault
  /\ ufs # <<>>
  /\ g_SB.top = FrameFloor
  /\ Rd(memB, g_SB.top - 1) = UpdateConstructorLabel
  /\ IF g_SB.top - 1 - 4 < 0 /\ ub = "crash" THEN Faulted
     ELSE /\ LET r == update_constructor([Stacks EXCEPT !.sb.top = @ - 1])
             IN /\ g_SA' = r.S.sa
                /\ g_SB' = r.S.sb
                /\ g_ConstrUpdateRegister' = r.cur
                /\ ret' = r.ret
                /\ memB' = Live(memB, r.S.sb.top)
          /\ ufs' = SubSeq(ufs, 1, Len(ufs) - 1)
          /\ lastOp' = "update_constructor"
          /\ reserved' = 0
          /\ gc' = NoGC
          /\ pap' = NULLP
          /\ entry' = NoEntry
          /\ UNCHANGED <<g_Heap, heapMem, heapAlloc, memA, g_StringRegister,
                         g_NodeRegister, fault>>

-----------------------------------------------------------------------------
(* Strings *)

\* the payload string_concat writes, with the second string first
ConcatBytes_swapped(bytes1, len1, bytes2, len2) ==
  SubSeq(bytes2, 1, len2) \o SubSeq(bytes1, 1, len1) \o <<0>>

\* the payload string_concat writes: len1 bytes of the first string, then
\* len2 + 1 bytes of the second
ConcatBytes(bytes1, len1, bytes2, len2) ==
  SubSeq(bytes1, 1, len1) \o SubSeq(bytes2, 1, len2 + 1)

\* string_concat(s1, s2): the machine it leaves and the address it returns
string_concat(s1, s2, M, ub) ==
  LET len1 == Strlen(Payload(M.mem, M.H.data, s1))
      len2 == Strlen(Payload(M.mem, M.H.data, s2))
      required0 == PtrSize + len1 + len2 + 1
      min_size == PtrSize + PtrSize
      extra == IF required0 < min_size THEN min_size - required0 ELSE 0
      required == required0 + extra
      collect == M.H.cursor + required > M.H.capacity
      pushed == [M EXCEPT !.sa = Wr(Wr(@, M.satop, s1), M.satop + 1, s2),
                          !.satop = @ + 2]
      r == IF collect THEN collect_garbage(required, pushed, ub)
                      ELSE [M |-> M, fault |-> FALSE, gc |-> NoGC]
      M1 == [r.M EXCEPT !.satop = M.satop]
      p1 == IF collect THEN Rd(r.M.sa, r.M.satop - 2) ELSE s1
      p2 == IF collect THEN Rd(r.M.sa, r.M.satop - 1) ELSE s2
      data1 == Payload(M1.mem, M1.H.data, p1)
      data2 == Payload(M1.mem, M1.H.data, p2)
      obj == StringObj(ConcatBytes(data1, len1, data2, len2),
                       PtrSize + len1 + (len2 + 1) + extra)
  IN IF r.fault THEN [M |-> M, ret |-> NULLP, fault |-> TRUE, gc |-> r.gc]
     ELSE [M |-> heap_write(M1, obj), ret |-> Hp(M1.H.data, M1.H.cursor),
           fault |-> FALSE, gc |-> r.gc]

\* the strings compiled code has at hand
StringsAtHand ==
  {p \in Literals \cup {g_StringRegister} \cup
         (IF g_SA.top > 0 THEN {Rd(memA, g_SA.top - 1)} ELSE {}) :
     IsString(heapMem, g_Heap.data, p)}

StringConcat(s1, s2, ub) ==
  /\ ~fault
  /\ MayAllocate(PtrSize + PtrSize)
  /\ Strlen(Payload(heapMem, g_Heap.data, s1))
       + Strlen(Payload(heapMem, g_Heap.data, s2)) <= MaxStrLen
  /\ LET r == string_concat(s1, s2, Machine, ub) IN
       /\ r.gc.ran => g_Heap.data < MaxGC
       /\ IF r.fault THEN Faulted
          ELSE /\ SetMachine(r.M, g_SA.top, g_SB.top)
               /\ ret' = r.ret
               /\ gc' = r.gc
               /\ ufs' = RelocFrames(r.gc, ufs)
               /\ lastOp' = "string_concat"
               /\ reserved' = 0
               /\ pap' = NULLP
               /\ entry' = [NoEntry EXCEPT
                             !.s1 = s1, !.s2 = s2,
                             !.bytes1 = Payload(heapMem, g_Heap.data, s1),
                             !.bytes2 = Payload(heapMem, g_Heap.data, s2)]
               /\ UNCHANGED <<g_SA, g_SB, g_ConstrUpdateRegister, fault>>

-----------------------------------------------------------------------------
(* Partial application *)

\* the removal of the update frame with the loop left out
ShiftDown_none(m, base, i, above_frame) == m

\* for (i = 0; i < above_frame; ++i) g_SB.base[i] = g_SB.base[i + 4];
RECURSIVE ShiftDown(_, _, _, _)
ShiftDown(m, base, i, above_frame) ==
  IF i >= above_frame THEN m
  ELSE ShiftDown(Wr(m, base + i, Rd(m, base + i + 4)), base, i + 1, above_frame)

\* count slots of m from slot from on, as heap_write copies them
Slice(m, from, count) == [i \in 1..count |-> Rd(m, from + i - 1)]

\* check_application_update without g_SB.top -= 4
check_application_update_no_pop(M, SA, SB, ub) ==
  LET saved_SB_base == Rd(M.sb, SB.base).off
      saved_SA_base == Rd(M.sb, SB.base + 1).off
      b_items == (SB.base - saved_SB_base) % U16Range
      a_items == (SA.base - saved_SA_base) % U16Range
      saved_B_size == PtrSize * b_items
      saved_A_size == PtrSize * a_items
      required == PtrSize + PtrSize + saved_B_size + saved_A_size
      r == heap_reserve(required, M, ub)
      above_frame == SB.top - SB.base + 4
      sb1 == ShiftDown(r.M.sb, SB.base, 0, above_frame)
      M1 == [r.M EXCEPT !.sb = sb1, !.sbbase = saved_SB_base]
      obj == PapObj(a_items, b_items,
                    Slice(M1.sa, saved_SA_base, a_items),
                    Slice(M1.sb, saved_SB_base, b_items),
                    PtrSize + U16Size + U16Size + saved_A_size + saved_B_size)
  IN [M |-> heap_write(M1, obj),
      sa |-> [top |-> SA.top, base |-> saved_SA_base],
      sb |-> [top |-> SB.top, base |-> saved_SB_base],
      pap |-> Hp(M1.H.data, M1.H.cursor),
      closure |-> Rd(r.M.sb, SB.base + 2),
      required |-> required,
      fault |-> r.fault, gc |-> r.gc]

\* check_application_update(arg_count, current) when the arguments on stack A
\* are too few: the machine and stacks it leaves and where it built the closure
check_application_update(M, SA, SB, ub) ==
  LET saved_SB_base == Rd(M.sb, SB.base).off
      saved_SA_base == Rd(M.sb, SB.base + 1).off
      b_items == (SB.base - saved_SB_base) % U16Range
      a_items == (SA.base - saved_SA_base) % U16Range
      saved_B_size == PtrSize * b_items
      saved_A_size == PtrSize * a_items
      required == PtrSize + PtrSize + saved_B_size + saved_A_size
      r == heap_reserve(required, M, ub)
      above_frame == SB.top - SB.base + 4
      sb1 == ShiftDown(r.M.sb, SB.base, 0, above_frame)
      M1 == [r.M EXCEPT !.sb = sb1, !.sbbase = saved_SB_base]
      obj == PapObj(a_items, b_items,
                    Slice(M1.sa, saved_SA_base, a_items),
                    Slice(M1.sb, saved_SB_base, b_items),
                    PtrSize + U16Size + U16Size + saved_A_size + saved_B_size)
  IN [M |-> heap_write(M1, obj),
      sa |-> [top |-> SA.top, base |-> saved_SA_base],
      sb |-> [top |-> SB.top - 4, base |-> saved_SB_base],
      pap |-> Hp(M1.H.data, M1.H.cursor),
      closure |-> Rd(r.M.sb, SB.base + 2),
      required |-> required,
      fault |-> r.fault, gc |-> r.gc]

Arities == {1, 3}

CheckApplicationUpdate(arg_count, ub) ==
  /\ ~fault
  /\ IF g_SA.top - g_SA.base >= arg_count
       THEN /\ ret' = NULLP
            /\ lastOp' = "check_application_update_null"
            /\ reserved' = 0
            /\ gc' = NoGC
            /\ pap' = NULLP
            /\ entry' = NoEntry
            /\ UNCHANGED <<g_Heap, heapMem, heapAlloc, g_SA, memA, g_SB, memB,
                           g_StringRegister, g_NodeRegister,
                           g_ConstrUpdateRegister, fault, ufs>>
       ELSE /\ ufs # <<>>
            /\ MayAllocate(PtrSize + PtrSize)
            /\ LET r == check_application_update(Machine, g_SA, g_SB, ub) IN
                 /\ r.gc.ran => g_Heap.data < MaxGC
                 /\ IF r.fault THEN Faulted
                    ELSE /\ SetMachine(r.M, r.sa.top, r.sb.top)
                         /\ g_SA' = r.sa
                         /\ g_SB' = r.sb
                         /\ ret' = FunctionLabel
                         /\ pap' = r.pap
                         /\ gc' = r.gc
                         /\ ufs' = RelocFrames(r.gc, SubSeq(ufs, 1, Len(ufs) - 1))
                         /\ lastOp' = "check_application_update"
                         /\ reserved' = 0
                         /\ entry' = [NoEntry EXCEPT
                                       !.sbtop = g_SB.top, !.sbbase = g_SB.base,
                                       !.satop = g_SA.top, !.sabase = g_SA.base,
                                       !.closure = r.closure]
                         /\ UNCHANGED <<g_ConstrUpdateRegister, fault>>

\* InfoTable table_for_partial_application = {NULL, &static_evac}
table_for_partial_application == [entry |-> NULLP, evac |-> "static_evac"]

\* The compiled program enters the partial application that
\* check_application_update has just built: it jumps to the entry of the
\* closure's info table.  That entry is the null label; ub names what the jump
\* does, "crash" (the process faults) or "stale" (the dispatch ends at the null
\* label with nothing restored).
EnterPartialApplication(ub) ==
  /\ ~fault
  /\ lastOp = "check_application_update"
  /\ InfoTableAt(heapMem, g_Heap.data, pap) = "pap"
  /\ LET label == table_for_partial_application.entry
     IN IF label = NULLP /\ ub = "crash" THEN Faulted
        ELSE /\ ret' = label
             /\ lastOp' = "enter_partial_application"
             /\ reserved' = 0
             /\ gc' = NoGC
             /\ UNCHANGED <<g_Heap, heapMem, heapAlloc, g_SA, memA, g_SB, memB,
                            g_StringRegister, g_NodeRegister,
                            g_ConstrUpdateRegister, fault, pap, entry, ufs>>

-----------------------------------------------------------------------------

\* the compiled program works on strings
NextStrings ==
  \/ \E n \in ReserveSizes, ub \in UB : HeapReserve(n, ub)
  \/ WriteBlob
  \/ \E v \in PushableA : PushA(v)
  \/ PopA
  \/ StoreString
  \/ \E s1 \in StringsAtHand, s2 \in StringsAtHand, ub \in UB : StringConcat(s1, s2, ub)

\* the compiled program enters thunks and functions
NextFrames ==
  \/ \E ub \in UB : AllocThunk(ub)
  \/ \E ub \in UB : AllocBlob(BASE_HEAP_SIZE - ThunkObj.size - PtrSize, ub)
  \/ \E v \in PushableA : PushA(v)
  \/ PopA
  \/ \E v \in PushableB : PushB(v)
  \/ PopB
  \/ ThunkPrologue
  \/ \E ub \in UB : ReturnToUpdateFrame(ub)
  \/ \E n \in Arities, ub \in UB : CheckApplicationUpdate(n, ub)
  \/ \E ub \in UB : EnterPartialApplication(ub)

Next == NextStrings \/ NextFrames

Spec == Init /\ [][Next]_vars
SpecStrings == Init /\ [][NextStrings]_vars
SpecFrames == Init /\ [][NextFrames]_vars

-----------------------------------------------------------------------------
(* Properties *)

\* the characters of a NUL-terminated payload
Chars(bytes) == SubSeq(bytes, 1, Strlen(bytes))

\* the root locations of the collector: the string register (-2), the node
\* register (-1) and the slots of stack A below the top
RootLocations(satop) == {-2, -1} \cup 0..(satop - 1)
RootAt(l, sr, nr, ma) == IF l = -2 THEN sr ELSE IF l = -1 THEN nr ELSE Rd(ma, l)

\* the bytes the closures of mem at the offsets S occupy
RECURSIVE SumSizes(_, _)
SumSizes(mem, S) ==
  IF S = {} THEN 0
  ELSE LET o == CHOOSE x \in S : TRUE IN mem[o].size + SumSizes(mem, S \ {o})

\* the offsets of the closures of the current space that a set of roots names
Reachable(roots) ==
  {p.off : p \in {q \in roots : q.k = "heap" /\ q.sp = g_Heap.data
                                  /\ q.off \in DOMAIN heapMem}}

\* C1: immediately after heap_reserve(n) returns, the n bytes fit:
\* cursor + n <= data + capacity.
C1_ReserveLeavesRoom ==
  lastOp = "heap_reserve" => g_Heap.cursor + reserved <= g_Heap.capacity

\* the values of the registers and the slots of stack A
RegisterAndArgumentValues ==
  {RootAt(l, g_StringRegister, g_NodeRegister, memA) : l \in RootLocations(g_SA.top)}

\* C2: after a collection every root location holds an address in the new
\* space or the address of a static object; none refers into the freed space.
\* Stated for the registers and the slots of stack A, and for collections
\* before which no root referred into a freed space.
C2_RootsLeaveOldSpace ==
  (gc.ran /\ ~fault /\ g_Heap.data = 1) =>
    \A p \in RegisterAndArgumentValues : p.k = "heap" => p.sp = g_Heap.data

\* C3: string_concat(A, B) returns the address of a closure of the current
\* heap whose info table is the string table and whose payload is the
\* characters of A, then the characters of B, then one NUL.
C3_ConcatPayload ==
  lastOp = "string_concat" =>
    /\ ret.k = "heap"
    /\ ret.sp = g_Heap.data
    /\ InfoTableAt(heapMem, g_Heap.data, ret) = "string"
    /\ Payload(heapMem, g_Heap.data, ret)
         = Chars(entry.bytes1) \o Chars(entry.bytes2) \o <<0>>

\* C3, witness: string_concat ran a collection that moved both of its
\* arguments, two different dynamic strings.
C3_ConcatMovedArguments ==
  /\ lastOp = "string_concat"
  /\ gc.ran
  /\ entry.s1.k = "heap"
  /\ entry.s2.k = "heap"
  /\ entry.s1 # entry.s2
  /\ entry.bytes1 # entry.bytes2
  /\ {entry.s1.off, entry.s2.off} \subseteq DOMAIN gc.fwd

\* C4: in every reachable state data <= cursor <= data + capacity; stated
\* for the states string_concat leaves.
C4_CursorWithinCapacity ==
  (lastOp = "string_concat" /\ ~fault) =>
    (0 <= g_Heap.cursor /\ g_Heap.cursor <= g_Heap.capacity)

\* C5: immediately after a collection over a heap of string closures, the
\* bytes in use are the sum of the sizes of the distinct closures the roots
\* named: each is copied once, to a copy of its own size, and no other
\* closure is copied.
C5_LiveBytesAreReachableSizes ==
  [][(gc'.ran /\ ~fault') =>
       LET roots == {RootAt(l, g_StringRegister, g_NodeRegister, memA) :
                       l \in RootLocations(g_SA.top)} \cup {entry'.s1, entry'.s2}
           reach == Reachable(roots)
       IN /\ gc'.live = SumSizes(heapMem, reach)
          /\ DOMAIN gc'.fwd = reach
          /\ \A o \in reach :
               /\ gc'.fwd[o].off \in DOMAIN heapMem'
               /\ heapMem'[gc'.fwd[o].off].size = heapMem[o].size
               /\ heapMem'[gc'.fwd[o].off].bytes = heapMem[o].bytes
          /\ \A o1, o2 \in reach : gc'.fwd[o1] = gc'.fwd[o2] => o1 = o2]_vars

\* C5, witness: a collection run by heap_reserve copied a short string that
\* two roots named and left an unreachable closure behind.
C5_CollectedSharedString ==
  /\ lastOp = "heap_reserve"
  /\ gc.ran
  /\ gc.live = PtrSize + PtrSize
  /\ gc.live < gc.used
  /\ g_SA.top > 0
  /\ g_StringRegister = Rd(memA, 0)
  /\ g_StringRegister.k = "heap"

\* C6: two roots that named the same closure before a collection name the
\* same closure after it: the address the first evac returned.
C6_SameClosureSameAddress ==
  [][(gc'.ran /\ ~fault') =>
       \A l1, l2 \in RootLocations(g_SA.top) :
         LET p1 == RootAt(l1, g_StringRegister, g_NodeRegister, memA)
             p2 == RootAt(l2, g_StringRegister, g_NodeRegister, memA)
             q1 == RootAt(l1, g_StringRegister', g_NodeRegister', memA')
             q2 == RootAt(l2, g_StringRegister', g_NodeRegister', memA')
         IN (p1 = p2 /\ p1.k = "heap") =>
              /\ q1 = q2
              /\ q1 = Reloc(gc', p1)
              /\ q1.sp = g_Heap'.data]_vars

\* C6, witness: string_concat ran a collection while the string register and
\* a slot of stack A named one dynamic string.
C6_SharedStringMoved ==
  /\ lastOp = "string_concat"
  /\ gc.ran
  /\ g_SA.top > 0
  /\ g_StringRegister = Rd(memA, 0)
  /\ g_StringRegister.k = "heap"
  /\ g_StringRegister.sp = g_Heap.data

\* C7: update_constructor, run on the topmost update frame, returns the
\* continuation k pushed before the frame, sets the constructor-update
\* register to the frame's closure, and restores SA.base, SB.base and SB.top
\* to what they were just before k was pushed.
C7_UpdateFrameRoundTrip ==
  [][(lastOp' = "update_constructor" /\ ~fault' /\ ufs[Len(ufs)].base > 0) =>
       LET f == ufs[Len(ufs)]
       IN /\ ret' = f.k
          /\ g_ConstrUpdateRegister' = f.c
          /\ g_SA'.base = f.sa
          /\ g_SB'.base = f.sb
          /\ g_SB'.top = f.base - 1]_vars

\* C7, witness: update_constructor returned from a frame nested in another,
\* whose closure is a thunk and whose saved bases differ.
C7_ReturnedFromNestedFrame ==
  /\ lastOp = "update_constructor"
  /\ ~fault
  /\ Len(ufs) >= 1
  /\ ret = ReturnLabel
  /\ g_ConstrUpdateRegister.k = "heap"
  /\ g_SA.base # g_SB.base

\* C8: when check_application_update finds too few arguments, the thunk of
\* the removed update frame is an indirection to the new closure on return.
C8_ThunkBecomesIndirection ==
  (lastOp = "check_application_update" /\ entry.sbbase > 0
     /\ InfoTableAt(heapMem, g_Heap.data, entry.closure) \in {"thunk", "indirection"}) =>
    /\ InfoTableAt(heapMem, g_Heap.data, entry.closure) = "indirection"
    /\ heapMem[entry.closure.off].fwd = pap

\* C9: with k arguments pushed on stack A since the update frame and nothing
\* pushed on stack B, the closure check_application_update builds records
\* a_items = k, b_items = 0 and the k arguments in push order.  Stated for
\* k >= 1 and a frame established above a return continuation.
C9_ClosureRecordsArguments ==
  (lastOp = "check_application_update" /\ entry.sbtop = entry.sbbase + 4
     /\ entry.sbbase > 0 /\ entry.satop > entry.sabase) =>
    LET k == entry.satop - entry.sabase
        c == heapMem[pap.off]
    IN /\ c.a = k
       /\ c.b = 0
       /\ c.aslice = Slice(memA, entry.sabase, k)

VisitedSlot(i) == \E j \in DOMAIN ufs : ufs[j].base # 0 /\ ufs[j].base + 2 = i

RECURSIVE ChainBases(_, _, _)
ChainBases(m, base, fuel) ==
  IF base = 0 \/ fuel = 0 THEN {}
  ELSE {base} \cup ChainBases(m, Rd(m, base).off, fuel - 1)

\* C11: the saved SB base of every update frame is strictly lower than the
\* frame's own base slot, and the walk along base[0] from g_SB.base visits
\* every update frame on stack B before it reaches g_SB.data.
C11_FrameChainVisitsEveryFrame ==
  ~fault =>
    /\ \A i \in DOMAIN ufs : Rd(memB, ufs[i].base).off < ufs[i].base
    /\ ChainBases(memB, g_SB.base, STACK_SIZE) = {ufs[i].base : i \in DOMAIN ufs}

\* C12: whenever heap_reserve or collect_garbage has been called,
\* SA.data <= SA.base <= SA.top and SB.data <= SB.base <= SB.top.
C12_BasesWithinStacks ==
  (~fault /\ lastOp \in {"alloc", "heap_reserve", "string_concat",
                         "check_application_update"}) =>
    /\ 0 <= g_SA.base
    /\ g_SA.base <= g_SA.top
    /\ 0 <= g_SB.base
    /\ g_SB.base <= g_SB.top

\* C13: every closure written by string_concat, string_evac or
\* check_application_update occupies at least sizeof(InfoTable *) +
\* sizeof(uint8_t *) bytes, a partial application with a_items = b_items = 0
\* included.
C13_ClosuresHoldRelocation ==
  ~fault =>
    \A o \in DOMAIN heapMem :
      heapMem[o].t \in {"string", "pap"} => heapMem[o].size >= PtrSize + PtrSize

C15_PartialApplicationRoundTrip ==
  lastOp = "enter_partial_application" => ret = FunctionLabel

ShiftedSlotsRead(SB) == {SB.base + i + 4 : i \in 0..(SB.top - SB.base + 4 - 1)}
ShiftedSlotsWritten(SB) == {SB.base + i : i \in 0..(SB.top - SB.base + 4 - 1)}

\* C17: check_application_update reads and writes only slots of stack B
\* strictly below the SB.top it was entered with, and none beyond the
\* STACK_SIZE slots of the array (stated for a frame pushed above a
\* continuation).
C17_ShiftStaysBelowTop ==
  (lastOp = "check_application_update" /\ entry.sbbase > 0) =>
    \A slot \in ShiftedSlotsRead([top |-> entry.sbtop, base |-> entry.sbbase])
                 \cup ShiftedSlotsWritten([top |-> entry.sbtop, base |-> entry.sbbase]) :
      /\ slot < entry.sbtop
      /\ slot < STACK_SIZE

\* p is the address of a closure of the space H
NamesClosure(p, H, mem) == p.k = "heap" /\ p.sp = H.data /\ p.off \in DOMAIN mem

\* C18: the closure address that update_constructor placed in the
\* constructor-update register still names a closure of the heap after a
\* later collection.
C18_UpdateRegisterSurvivesCollection ==
  [][(NamesClosure(g_ConstrUpdateRegister, g_Heap, heapMem) /\ g_SB.top >= 0
        /\ gc'.ran /\ ~fault')
       => NamesClosure(g_ConstrUpdateRegister', g_Heap', heapMem')]_vars

\* C19: the cursor lies within the bytes malloc'ed for the current space and
\* the capacity does not exceed them, every heap_reserve(n) being followed by
\* at most n bytes of writes; the bytes a collection allocates are at least
\* the bytes that survive it plus extra_required.
C19_CursorWithinAllocation ==
  ~fault =>
    /\ 0 <= g_Heap.cursor
    /\ g_Heap.cursor <= heapAlloc
    /\ g_Heap.capacity <= heapAlloc
    /\ (lastOp = "heap_reserve" /\ gc.ran) => heapAlloc >= gc.live + reserved
    /\ (lastOp = "string_concat" /\ gc.ran)
         => heapAlloc >= gc.live + heapMem[ret.off].size

\* C19, witness: after a collection lowered the capacity, the reserved bytes
\* were written past the capacity, inside the allocated block.
C19_WrittenPastCapacity ==
  /\ ~fault
  /\ g_Heap.data > 0
  /\ lastOp = "mutator"
  /\ g_Heap.cursor > g_Heap.capacity
  /\ \E o \in DOMAIN heapMem : heapMem[o].t = "blob"

====
